---------------------------- MODULE Spec2Model ----------------------------
(***************************************************************************)
(* A model of smugmug_scraper.py (Python 2): the HTML config extractor,    *)
(* the API URL builder, the two JSON API calls, the image URL resolver,    *)
(* the album name resolver, the downloader and the per-album pipeline that *)
(* main runs over a list of album URLs.                                    *)
(*                                                                         *)
(* Text is modelled as a sequence of tokens.  A token is a one-character   *)
(* string, or a longer string that stands for a run of characters holding  *)
(* none of the characters the code looks for ("/", white space, the        *)
(* reserved characters of a file name, the regular expression's literals). *)
(*                                                                         *)
(* A call's outcome is a record whose err field is "none" or the name of   *)
(* the exception the call raised.                                          *)
(***************************************************************************)
EXTENDS Naturals, Sequences, FiniteSets, TLC

VARIABLES
    urls,           \* main: the album URLs of the run
    sizes,          \* main: the size selector of the run
    pc,             \* the statement of download_album / main that runs next
    ui,             \* main: the index in urls of the album in progress
    html,           \* download_album: the page fetched
    gallery_config, \* download_album: the dict parsed from the page (mutable)
    parsed_config,  \* history: gallery_config as json.loads returned it
    album_data,     \* download_album: the album metadata response
    image_data,     \* download_album: the list of image records
    output_dir,     \* download_album: the album's directory
    ii,             \* download_album: index of the image of the for loop
    pending,        \* download_album: the URLs of image ii still to download
    fs_dirs,        \* file system: the directories that exist
    fs_files,       \* file system: path -> the URL whose content the file holds
    log,            \* history: the calls made for the album in progress, in order
    error,          \* "none", or the exception that left main
    arg,            \* a single call of one function: its arguments
    ret             \* a single call of one function: its outcome

vars == <<urls, sizes, pc, ui, html, gallery_config, parsed_config, album_data,
          image_data, output_dir, ii, pending, fs_dirs, fs_files, log, error,
          arg, ret>>

pipeline_vars == <<urls, sizes, pc, ui, html, gallery_config, parsed_config,
                   album_data, image_data, output_dir, ii, pending, fs_dirs,
                   fs_files, log, error>>

-----------------------------------------------------------------------------
(* Bounds of the inputs.                                                   *)

MaxTitleLen == 3    \* characters of an album title
MaxSelLen == 2      \* labels of a list-form size selector
MaxHtmlLen == 6     \* tokens of an HTML page
MaxImages == 2      \* image records of an image-list response

-----------------------------------------------------------------------------
(* Sequences.                                                              *)

Range(s) == {s[i] : i \in 1..Len(s)}

SeqsUpTo(S, n) == UNION {[1..k -> S] : k \in 0..n}

RECURSIVE Concat(_)
Concat(ss) == IF ss = <<>> THEN <<>> ELSE Head(ss) \o Concat(Tail(ss))

RECURSIVE Filter(_, _)
Filter(s, keep) ==
    IF s = <<>> THEN <<>>
    ELSE (IF Head(s) \in keep THEN <<Head(s)>> ELSE <<>>) \o Filter(Tail(s), keep)

EmptyDict == <<>>

-----------------------------------------------------------------------------
(* get_album_name                                                          *)

\* The characters of the class [\/\*\?:"<>] of to_remove: in the raw string
\* each backslash escapes the character after it, so the class holds "/",
\* "*", "?", ":", the double quote, "<" and ">".
to_remove == {"/", "*", "?", ":", "\"", "<", ">"}

\* re.split(to_remove, title): the pieces between the maximal runs of
\* characters of the class (an empty piece before a leading run and after a
\* trailing one).
RECURSIVE ReSplit(_)
ReSplit(s) ==
    IF s = <<>> THEN << <<>> >>
    ELSE LET rest == ReSplit(Tail(s)) IN
         IF Head(s) \in to_remove
         THEN IF Tail(s) # <<>> /\ Head(Tail(s)) \in to_remove
              THEN rest
              ELSE << <<>> >> \o rest
         ELSE << <<Head(s)>> \o Head(rest) >> \o Tail(rest)

\* ''.join(pieces)
Join(pieces) == Concat(pieces)

\* get_album_name(album_data): album_data is [type, d], d the dict.
get_album_name(data) ==
    IF data.type # "dict" THEN [err |-> "TypeError", name |-> <<>>]
    ELSE IF "Albums" \notin DOMAIN data.d THEN [err |-> "KeyError", name |-> <<>>]
    ELSE IF data.d.Albums = <<>> THEN [err |-> "IndexError", name |-> <<>>]
    ELSE [err |-> "none", name |-> Join(ReSplit(data.d.Albums[1].Title))]

-----------------------------------------------------------------------------
(* get_image_url                                                           *)

\* A size selector is [kind, val]: kind "none" (None), "str" (val is <<label>>),
\* "list" (val is the list of labels) or "tuple" (another type, val its items).
\* Python's truth value of the selector, as `not sizes` reads it.
Truthy(sel) ==
    CASE sel.kind = "none" -> FALSE
      [] sel.kind = "str" -> sel.val[1] # ""
      [] OTHER -> sel.val # <<>>

\* "{BaseUrl}i-{ImageKey}/1/{size}/{URLFilename}-{size}.{ext}".format(...)
FormatUrl(image, s) ==
    image.BaseUrl \o <<"i-">> \o image.ImageKey \o <<"/", "1", "/", s, "/">>
        \o image.URLFilename \o <<"-", s, ".">> \o image.Sizes[s].ext

\* The orders in which a dict may list its keys.
KeyOrders(d) ==
    {o \in [1..Cardinality(DOMAIN d) -> DOMAIN d] :
        \A i, j \in DOMAIN o : o[i] = o[j] => i = j}

NoSizes == [err |-> "KeyError", chosen |-> <<>>]

\* A variant of SelectStr that drops a label that is no key, as the list
\* branch does.
SelectStrLenient(d, label) ==
    IF "Sizes" \notin DOMAIN d THEN NoSizes
    ELSE [err |-> "none", chosen |-> Filter(<<label>>, DOMAIN d.Sizes)]

\* The branch `type(sizes) is str`: the label alone, or ValueError.
SelectStr(d, label) ==
    IF "Sizes" \notin DOMAIN d THEN NoSizes
    ELSE IF label \in DOMAIN d.Sizes THEN [err |-> "none", chosen |-> <<label>>]
    ELSE [err |-> "ValueError", chosen |-> <<>>]

\* The branch `type(sizes) is list`: [s for s in sizes if s in Sizes].
SelectList(d, labels) ==
    IF "Sizes" \notin DOMAIN d THEN NoSizes
    ELSE [err |-> "none", chosen |-> Filter(labels, DOMAIN d.Sizes)]

\* The if/elif chain that turns the selector into the list of sizes; order is
\* the order in which image_data["Sizes"].keys() lists the keys (unspecified
\* for a dict), read only when the selector is false.
SelectSizes(d, sel, order) ==
    IF ~Truthy(sel)
    THEN IF "Sizes" \notin DOMAIN d THEN NoSizes
         ELSE [err |-> "none", chosen |-> order]
    ELSE IF sel.kind = "str" THEN SelectStr(d, sel.val[1])
    ELSE IF sel.kind = "list" THEN SelectList(d, sel.val)
    ELSE [err |-> "TypeError", chosen |-> <<>>]

\* A variant of ReturnShape that returns the list whatever its length.
ReturnShapeAlwaysList(us) == "list"

\* `urls[0] if len(urls) == 1 else urls`: the type of the value returned.
ReturnShape(us) == IF Len(us) = 1 THEN "str" ELSE "list"

\* get_image_url(image_data, sizes): image is [type, d], d the dict.
get_image_url(image, sel, order) ==
    IF image.type # "dict"
    THEN [err |-> "TypeError", shape |-> "none", urls |-> <<>>]
    ELSE IF ~ {"BaseUrl", "ImageKey", "URLFilename"} \subseteq DOMAIN image.d
    THEN [err |-> "ValueError", shape |-> "none", urls |-> <<>>]
    ELSE LET sel_sizes == SelectSizes(image.d, sel, order) IN
         IF sel_sizes.err # "none"
         THEN [err |-> sel_sizes.err, shape |-> "none", urls |-> <<>>]
         ELSE LET us == [i \in 1..Len(sel_sizes.chosen) |->
                            FormatUrl(image.d, sel_sizes.chosen[i])]
              IN  [err |-> "none", shape |-> ReturnShape(us), urls |-> us]

\* The orders image_data["Sizes"].keys() may have (<<>> when there is no Sizes).
SizesOrders(image) ==
    IF image.type = "dict" /\ "Sizes" \in DOMAIN image.d
    THEN KeyOrders(image.d.Sizes) ELSE {<<>>}

-----------------------------------------------------------------------------
(* get_gallery_config_from_html                                            *)

\* html.split('\n')
RECURSIVE SplitLines(_)
SplitLines(s) ==
    IF s = <<>> THEN << <<>> >>
    ELSE LET rest == SplitLines(Tail(s)) IN
         IF Head(s) = "\n" THEN << <<>> >> \o rest
         ELSE << <<Head(s)>> \o Head(rest) >> \o Tail(rest)

\* \s*: the first position from i on that holds no white space.
RECURSIVE SkipWs(_, _)
SkipWs(line, i) ==
    IF i <= Len(line) /\ line[i] = " " THEN SkipWs(line, i + 1) ELSE i

\* The token at position i, "" past the end of the line.
At(line, i) == IF i \in 1..Len(line) THEN line[i] ELSE ""

\* The position of the "{" of galleryConfig\s*=\s*{ when "galleryConfig" is at
\* position i, 0 when the line does not go on that way.
BraceAfter(line, i) ==
    LET a == SkipWs(line, i + 1)
        b == SkipWs(line, a + 1)
    IN  IF At(line, a) = "=" /\ At(line, b) = "{" THEN b ELSE 0

\* The positions of a "}" that ends ({.*?})\s*; for the "{" at position b.
Closers(line, b) ==
    {e \in (b + 1)..Len(line) :
        line[e] = "}" /\ At(line, SkipWs(line, e + 1)) = ";"}

\* The positions of a "galleryConfig" from which the whole pattern matches.
Starts(line) ==
    {i \in 1..Len(line) :
        /\ line[i] = "galleryConfig"
        /\ BraceAfter(line, i) # 0
        /\ Closers(line, BraceAfter(line, i)) # {}}

Min(S) == CHOOSE x \in S : \A y \in S : x <= y

\* gallery_config.search(line): a match ([found, group], group the text of
\* group 1) or None.  The pattern is .*?galleryConfig\s*=\s*({.*?})\s*; and
\* both .*? are lazy: the first "galleryConfig" from which the rest matches,
\* then the first "}" that \s*; follows.
Search(line) ==
    IF Starts(line) = {} THEN [found |-> FALSE, group |-> <<>>]
    ELSE LET b == BraceAfter(line, Min(Starts(line)))
         IN  [found |-> TRUE, group |-> SubSeq(line, b, Min(Closers(line, b)))]

\* json.loads of the text of an object: "m" stands for the text of the
\* object's members, well formed; any other token between the braces is not
\* JSON.  The outcome tells whether the dict has members.
JsonLoadsObject(text) ==
    LET body == Filter(SubSeq(text, 2, Len(text) - 1), Range(text) \ {" "})
    IN  IF body = <<>> THEN [err |-> "none", members |-> FALSE]
        ELSE IF body = <<"m">> THEN [err |-> "none", members |-> TRUE]
        ELSE [err |-> "ValueError", members |-> FALSE]

\* The first line of lines that holds "galleryConfig", 0 when none does.
FirstMarked(lines) ==
    IF \E i \in 1..Len(lines) : "galleryConfig" \in Range(lines[i])
    THEN Min({i \in 1..Len(lines) : "galleryConfig" \in Range(lines[i])})
    ELSE 0

\* What json_text.group(1) does with the outcome of the search: the text of
\* group 1, or AttributeError when the search returned None.
Group1(m) ==
    IF m.found THEN [err |-> "none", text |-> m.group]
    ELSE [err |-> "AttributeError", text |-> <<>>]

\* get_gallery_config_from_html(html): html is [type, text].
get_gallery_config_from_html(h) ==
    IF h.type # "str" THEN [err |-> "TypeError", members |-> FALSE]
    ELSE LET lines == SplitLines(h.text)
             n == FirstMarked(lines)
         IN  IF n = 0 THEN [err |-> "ValueError", members |-> FALSE]
             ELSE LET g == Group1(Search(lines[n])) IN
                  IF g.err # "none" THEN [err |-> g.err, members |-> FALSE]
                  ELSE JsonLoadsObject(g.text)

-----------------------------------------------------------------------------
(* build_request_url, request_album_data, request_image_data               *)

\* A value of a dict of request parameters is [t, s, n, b]: a str s, an int n
\* or a bool b, as t says.
StrVal(s) == [t |-> "str", s |-> s, n |-> 0, b |-> FALSE]
IntVal(n) == [t |-> "int", s |-> "", n |-> n, b |-> FALSE]
BoolVal(b) == [t |-> "bool", s |-> "", n |-> 0, b |-> b]

Digit(d) ==
    CASE d = 0 -> "0" [] d = 1 -> "1" [] d = 2 -> "2" [] d = 3 -> "3"
      [] d = 4 -> "4" [] d = 5 -> "5" [] d = 6 -> "6" [] d = 7 -> "7"
      [] d = 8 -> "8" [] d = 9 -> "9"

RECURSIVE IntToStr(_)
IntToStr(n) == IF n < 10 THEN Digit(n) ELSE IntToStr(n \div 10) \o Digit(n % 10)

\* str(v), as urlencode applies it to a value.
PyStr(v) ==
    CASE v.t = "str" -> v.s
      [] v.t = "int" -> IntToStr(v.n)
      [] v.t = "bool" -> IF v.b THEN "True" ELSE "False"

\* urllib.urlencode(params): the key=value pairs of the query string (a dict
\* lists them in no particular order; the keys and values of the model hold
\* no character that quote_plus escapes).
urlencode(params) == {<<k, PyStr(params[k])>> : k \in DOMAIN params}

sm_api_base == "/services/api/json/1.4.0/"

default_method == "rpc.gallery.getalbum"

\* d with d[k] = v.
SetItem(d, k, v) == [x \in DOMAIN d \cup {k} |-> IF x = k THEN v ELSE d[x]]

\* A variant of SetParams that keeps a parameter the page already set
\* (params.setdefault in place of the assignment).
SetParamsKeepPreset(params, size, method) ==
    LET SetDefault(d, k, v) == IF k \in DOMAIN d THEN d ELSE SetItem(d, k, v)
    IN  SetDefault(SetDefault(SetDefault(params, "method", StrVal(method)),
                              "returnModelList", BoolVal(TRUE)),
                   "PageSize", IntVal(size))

\* The three assignments to params of build_request_url.
SetParams(params, size, method) ==
    SetItem(SetItem(SetItem(params, "method", StrVal(method)),
                    "returnModelList", BoolVal(TRUE)),
            "PageSize", IntVal(size))

\* `params = gallery_config["galleryRequestData"]`: params is the dict of
\* gallery_config itself, so what the assignments to params leave in
\* gallery_config.
ParamsOf(config, params) == [config EXCEPT !.galleryRequestData = params]

\* build_request_url(gallery_config, size, method): config is [type, d].  The
\* outcome holds the URL and gallery_config as the call leaves it.
build_request_url(config, size, method) ==
    IF config.type # "dict"
    THEN [err |-> "TypeError", url |-> <<>>, config |-> config]
    ELSE IF ~ {"breadcrumbs", "galleryRequestData"} \subseteq DOMAIN config.d
    THEN [err |-> "ValueError", url |-> <<>>, config |-> config]
    ELSE LET nonblank == SelectSeq(config.d.breadcrumbs, LAMBDA x : x.url # "")
         IN  IF nonblank = <<>>
             THEN [err |-> "IndexError", url |-> <<>>, config |-> config]
             ELSE LET params == SetParams(config.d.galleryRequestData, size, method)
                  IN  [err |-> "none",
                       url |-> [base |-> nonblank[1].url, path |-> sm_api_base,
                                query |-> urlencode(params)],
                       config |-> [type |-> "dict",
                                   d |-> ParamsOf(config.d, params)]]

\* The `size` request_image_data passes to build_request_url.
ImageRequestSize(data) == data.d.Pagination.TotalItems

\* The checks of request_image_data on album_data, before it builds the URL.
CheckAlbumData(data) ==
    IF data.type # "dict" THEN "TypeError"
    ELSE IF "Pagination" \notin DOMAIN data.d THEN "ValueError"
    ELSE "none"

-----------------------------------------------------------------------------
(* download_file                                                           *)

\* The positions of a "/" in url.
Slashes(url) == {i \in 1..Len(url) : url[i] = "/"}

\* os.path.basename(url): what follows the last "/".
Basename(url) ==
    IF Slashes(url) = {} THEN url
    ELSE SubSeq(url, (CHOOSE i \in Slashes(url) : \A j \in Slashes(url) : j <= i) + 1,
                Len(url))

\* A variant of DownloadPath that names the file by the whole URL.
DownloadPathByUrl(url, dir) == [dir |-> dir, name |-> url]

\* os.path.join(output_dir, os.path.basename(url)): the file download_file
\* writes.
DownloadPath(url, dir) == [dir |-> dir, name |-> Basename(url)]

\* urllib.urlretrieve(url, path): the file at path holds the content of url,
\* whatever it held before.
WriteFile(files, path, url) ==
    [p \in DOMAIN files \cup {path} |-> IF p = path THEN url ELSE files[p]]

\* The names of the files of directory dir.
Listing(files, dir) == {p.name : p \in {q \in DOMAIN files : q.dir = dir}}

-----------------------------------------------------------------------------
(* The inputs of a run: the URLs and the selector main is called with, and *)
(* what the network may answer.                                            *)

Labels == {"L", "M", "X", ""}

Ext(label) == IF label = "L" THEN <<"jpg">> ELSE <<"png">>

SizesOf(keys) == [s \in keys |-> [ext |-> Ext(s)]]

ImageOf(key, file, keys) ==
    [type |-> "dict",
     d |-> [BaseUrl |-> <<"h", "/">>, ImageKey |-> <<key>>,
            URLFilename |-> <<file>>, Sizes |-> SizesOf(keys)]]

AlbumUrls == <<"u1", "u2">>

OutputRoot == "out"

PipelineSelectors ==
    {[kind |-> "none", val |-> <<>>],
     [kind |-> "str", val |-> <<"L">>],
     [kind |-> "str", val |-> <<"X">>],
     [kind |-> "list", val |-> <<"L", "M">>],
     [kind |-> "list", val |-> <<"L", "L">>],
     [kind |-> "list", val |-> <<"X">>]}

\* Pages: without the marker, with the marker and no assignment, with an
\* empty object, with an object that has members.
HtmlPages ==
    {<<"m">>,
     <<"m", "\n", "galleryConfig", ";">>,
     <<"galleryConfig", "=", "{", "}", ";">>,
     <<"m", "\n", "galleryConfig", " ", "=", " ", "{", "m", "}", ";">>}

PlainRequestData == [Album |-> StrVal("abc")]

PresetRequestData ==
    [Album |-> StrVal("xyz"), PageSize |-> IntVal(7),
     method |-> StrVal("other"), returnModelList |-> BoolVal(FALSE)]

\* The dicts an object with members may parse to.
MemberConfigs ==
    {[breadcrumbs |-> <<[url |-> ""], [url |-> "B"]>>,
      galleryRequestData |-> PlainRequestData],
     [breadcrumbs |-> <<[url |-> "B"], [url |-> "C"]>>,
      galleryRequestData |-> PresetRequestData],
     [breadcrumbs |-> <<[url |-> ""]>>, galleryRequestData |-> PlainRequestData],
     [breadcrumbs |-> <<[url |-> "B"]>>]}

TotalItemsValues == {0, 1, 2}

PipelineTitles == {<<"a", ":", "b">>, <<"c">>}

\* The bodies the album metadata request may be answered with.
AlbumResponses ==
    {[type |-> "dict",
      d |-> [Pagination |-> [TotalItems |-> n], Albums |-> <<[Title |-> t]>>]] :
        n \in TotalItemsValues, t \in PipelineTitles}
    \cup {[type |-> "dict", d |-> [Albums |-> <<[Title |-> <<"c">>]>>]],
          [type |-> "dict", d |-> [Pagination |-> [TotalItems |-> 1], Albums |-> <<>>]],
          [type |-> "list", d |-> EmptyDict]}

\* Two images with the same file name and different keys.
ImagePool == {ImageOf("k1", "f", {"L", "M"}), ImageOf("k2", "f", {"L"})}

\* The values of "Images" the image list request may be answered with.
ImageLists == SeqsUpTo(ImagePool, MaxImages)

-----------------------------------------------------------------------------
(* main and download_album                                                 *)

NoDict == [type |-> "none", d |-> EmptyDict]

NoDir == [root |-> "", leaf |-> <<>>]

\* The locals of download_album before its first statement.
FreshLocals ==
    /\ html' = [type |-> "str", text |-> <<>>]
    /\ gallery_config' = NoDict /\ parsed_config' = NoDict
    /\ album_data' = NoDict /\ image_data' = <<>>
    /\ output_dir' = NoDir /\ ii' = 1 /\ pending' = <<>>

\* A variant of NextStatement that resolves the album name and makes the
\* directory before it requests the image list.
NextStatementNameFirst(p) ==
    CASE p = "fetch_html" -> "extract_config"
      [] p = "extract_config" -> "request_album_data"
      [] p = "request_album_data" -> "album_name"
      [] p = "album_name" -> "ensure_dir"
      [] p = "ensure_dir" -> "request_image_data"
      [] p = "request_image_data" -> "for_image"

\* The statement of download_album that follows statement p.
NextStatement(p) ==
    CASE p = "fetch_html" -> "extract_config"
      [] p = "extract_config" -> "request_album_data"
      [] p = "request_album_data" -> "request_image_data"
      [] p = "request_image_data" -> "album_name"
      [] p = "album_name" -> "ensure_dir"
      [] p = "ensure_dir" -> "for_image"

\* The statement ends and the next one runs.
Goto(p) == pc' = p /\ error' = error

\* A variant of Raise in which main catches the exception and goes on with
\* the next URL.
RaiseCaught(e) == pc' = "main" /\ error' = e

\* The statement raises e: neither download_album nor main nor the script
\* has a try statement, so the exception leaves main and the run ends.
Raise(e) == pc' = "aborted" /\ error' = e

\* A variant of UrlsToDownload without the branch for a single str.
UrlsToDownloadListOnly(r) == IF r.shape = "list" THEN r.urls ELSE <<>>

\* `type(image_urls) is str` / `elif type(image_urls) is list`: the URLs
\* download_album passes to download_file for one image.
UrlsToDownload(r) ==
    IF r.shape = "str" THEN <<r.urls[1]>>
    ELSE IF r.shape = "list" THEN r.urls
    ELSE <<>>

Init ==
    /\ urls = AlbumUrls /\ sizes \in PipelineSelectors
    /\ pc = "main" /\ ui = 0
    /\ html = [type |-> "str", text |-> <<>>]
    /\ gallery_config = NoDict /\ parsed_config = NoDict
    /\ album_data = NoDict /\ image_data = <<>>
    /\ output_dir = NoDir /\ ii = 1 /\ pending = <<>>
    /\ fs_dirs = {} /\ fs_files = EmptyDict
    /\ log = <<>> /\ error = "none"
    /\ arg = EmptyDict /\ ret = [err |-> "pending"]

\* main: `for url in urls`, and the call of download_album.
Main ==
    /\ pc = "main"
    /\ IF ui < Len(urls)
       THEN ui' = ui + 1 /\ pc' = "fetch_html" /\ log' = <<>>
       ELSE ui' = ui /\ pc' = "done" /\ log' = log
    /\ UNCHANGED <<urls, sizes, html, gallery_config, parsed_config, album_data,
                   image_data, output_dir, ii, pending, fs_dirs, fs_files,
                   error, arg, ret>>

\* html = urllib.urlopen(url).read()
FetchHtml ==
    /\ pc = "fetch_html"
    /\ log' = Append(log, [op |-> "urlopen_html", album |-> ui, url |-> urls[ui]])
    /\ \/ \E page \in HtmlPages :
              html' = [type |-> "str", text |-> page]
              /\ Goto(NextStatement("fetch_html"))
       \/ html' = html /\ Raise("IOError")
    /\ UNCHANGED <<urls, sizes, ui, gallery_config, parsed_config, album_data,
                   image_data, output_dir, ii, pending, fs_dirs, fs_files,
                   arg, ret>>

\* gallery_config = get_gallery_config_from_html(html)
ExtractConfig ==
    /\ pc = "extract_config"
    /\ log' = Append(log, [op |-> "get_gallery_config_from_html", album |-> ui])
    /\ LET r == get_gallery_config_from_html(html) IN
       IF r.err # "none"
       THEN Raise(r.err) /\ UNCHANGED <<gallery_config, parsed_config>>
       ELSE \E d \in (IF r.members THEN MemberConfigs ELSE {EmptyDict}) :
                /\ gallery_config' = [type |-> "dict", d |-> d]
                /\ parsed_config' = [type |-> "dict", d |-> d]
                /\ Goto(NextStatement("extract_config"))
    /\ UNCHANGED <<urls, sizes, ui, html, album_data, image_data, output_dir,
                   ii, pending, fs_dirs, fs_files, arg, ret>>

\* album_data = request_album_data(gallery_config)
RequestAlbumData ==
    /\ pc = "request_album_data"
    /\ LET b == build_request_url(gallery_config, 0, default_method)
           req == [op |-> "request_album_data", album |-> ui, url |-> b.url]
       IN  /\ gallery_config' = b.config
           /\ IF b.err # "none"
              THEN Raise(b.err) /\ UNCHANGED <<log, album_data>>
              ELSE \/ \E body \in AlbumResponses :
                          /\ album_data' = body
                          /\ log' = log \o <<req, [op |-> "album_data_received",
                                                   album |-> ui, body |-> body]>>
                          /\ Goto(NextStatement("request_album_data"))
                   \/ \E e \in {"IOError", "ValueError"} :
                          /\ log' = Append(log, req)
                          /\ Raise(e) /\ UNCHANGED album_data
    /\ UNCHANGED <<urls, sizes, ui, html, parsed_config, image_data, output_dir,
                   ii, pending, fs_dirs, fs_files, arg, ret>>

\* image_data = request_image_data(gallery_config, album_data)
RequestImageData ==
    /\ pc = "request_image_data"
    /\ IF CheckAlbumData(album_data) # "none"
       THEN Raise(CheckAlbumData(album_data))
            /\ UNCHANGED <<gallery_config, log, image_data>>
       ELSE LET b == build_request_url(gallery_config,
                                       ImageRequestSize(album_data), default_method)
                req == [op |-> "request_image_data", album |-> ui, url |-> b.url]
            IN  /\ gallery_config' = b.config
                /\ IF b.err # "none"
                   THEN Raise(b.err) /\ UNCHANGED <<log, image_data>>
                   ELSE \/ \E images \in ImageLists :
                               /\ image_data' = images
                               /\ log' = log \o <<req, [op |-> "image_data_received",
                                                        album |-> ui,
                                                        count |-> Len(images)]>>
                               /\ Goto(NextStatement("request_image_data"))
                        \/ \E e \in {"IOError", "ValueError", "KeyError"} :
                               /\ log' = Append(log, req)
                               /\ Raise(e) /\ UNCHANGED image_data
    /\ UNCHANGED <<urls, sizes, ui, html, parsed_config, album_data, output_dir,
                   ii, pending, fs_dirs, fs_files, arg, ret>>

\* output_dir = os.path.join(output_dir, get_album_name(album_data))
AlbumName ==
    /\ pc = "album_name"
    /\ log' = Append(log, [op |-> "get_album_name", album |-> ui])
    /\ LET r == get_album_name(album_data) IN
       IF r.err # "none"
       THEN Raise(r.err) /\ UNCHANGED output_dir
       ELSE /\ output_dir' = [root |-> OutputRoot, leaf |-> r.name]
            /\ Goto(NextStatement("album_name"))
    /\ UNCHANGED <<urls, sizes, ui, html, gallery_config, parsed_config,
                   album_data, image_data, ii, pending, fs_dirs, fs_files,
                   arg, ret>>

\* if not os.path.exists(output_dir): os.makedirs(output_dir)
EnsureDir ==
    /\ pc = "ensure_dir"
    /\ LET seen == [op |-> "exists", album |-> ui, path |-> output_dir,
                    listing |-> Listing(fs_files, output_dir)]
           made == [op |-> "makedirs", album |-> ui, path |-> output_dir]
       IN  IF output_dir \in fs_dirs
           THEN /\ log' = Append(log, seen)
                /\ Goto(NextStatement("ensure_dir")) /\ UNCHANGED fs_dirs
           ELSE /\ log' = log \o <<seen, made>>
                /\ \/ fs_dirs' = fs_dirs \cup {output_dir}
                      /\ Goto(NextStatement("ensure_dir"))
                   \/ Raise("OSError") /\ UNCHANGED fs_dirs
    /\ UNCHANGED <<urls, sizes, ui, html, gallery_config, parsed_config,
                   album_data, image_data, output_dir, ii, pending, fs_files,
                   arg, ret>>

\* `for i in image_data`: the next image and its get_image_url(i, sizes), or
\* the end of the loop, where download_album returns to main.
ForImage ==
    /\ pc = "for_image"
    /\ IF ii > Len(image_data)
       THEN /\ log' = Append(log, [op |-> "album_done", album |-> ui])
            /\ Goto("main") /\ FreshLocals
       ELSE /\ \E order \in SizesOrders(image_data[ii]) :
                   LET r == get_image_url(image_data[ii], sizes, order) IN
                   /\ log' = Append(log, [op |-> "get_image_url", album |-> ui,
                                          image |-> ii, ret |-> r])
                   /\ IF r.err # "none"
                      THEN Raise(r.err) /\ UNCHANGED pending
                      ELSE /\ pending' = UrlsToDownload(r)
                           /\ Goto(IF UrlsToDownload(r) = <<>>
                                   THEN "for_image" ELSE "download")
            /\ ii' = ii + 1
            /\ UNCHANGED <<html, gallery_config, parsed_config, album_data,
                           image_data, output_dir>>
    /\ UNCHANGED <<urls, sizes, ui, fs_dirs, fs_files, arg, ret>>

\* download_file(u, output_dir), for the next URL of the image.
DownloadFile ==
    /\ pc = "download"
    /\ LET url == Head(pending)
           path == DownloadPath(url, output_dir)
       IN  /\ log' = Append(log, [op |-> "urlretrieve", album |-> ui,
                                  url |-> url, path |-> path])
           /\ \/ /\ fs_files' = WriteFile(fs_files, path, url)
                 /\ Goto(IF Tail(pending) = <<>> THEN "for_image" ELSE "download")
              \/ Raise("IOError") /\ UNCHANGED fs_files
              \/ /\ fs_files' = WriteFile(fs_files, path, url)
                 /\ Raise("ContentTooShortError")
    /\ pending' = Tail(pending)
    /\ UNCHANGED <<urls, sizes, ui, html, gallery_config, parsed_config,
                   album_data, image_data, output_dir, ii, fs_dirs, arg, ret>>

Next ==
    \/ Main
    \/ FetchHtml
    \/ ExtractConfig
    \/ RequestAlbumData
    \/ RequestImageData
    \/ AlbumName
    \/ EnsureDir
    \/ ForImage
    \/ DownloadFile

Spec == Init /\ [][Next]_vars

-----------------------------------------------------------------------------
(* Single calls of the pure functions, on inputs drawn from bounded sets.  *)

NotCalled == [err |-> "pending"]

\* The pipeline is not running.
Idle ==
    /\ urls = <<>> /\ sizes = [kind |-> "none", val |-> <<>>]
    /\ pc = "idle" /\ ui = 0 /\ html = [type |-> "str", text |-> <<>>]
    /\ gallery_config = NoDict /\ parsed_config = NoDict
    /\ album_data = NoDict /\ image_data = <<>>
    /\ output_dir = NoDir /\ ii = 1 /\ pending = <<>>
    /\ fs_dirs = {} /\ fs_files = EmptyDict /\ log = <<>> /\ error = "none"

TitleChars == {"\\", "/", "*", "?", ":", "\"", "<", ">", "a", " ", "|"}

AlbumOf(title) == [type |-> "dict", d |-> [Albums |-> <<[Title |-> title]>>]]

NameArgs ==
    {AlbumOf(t) : t \in SeqsUpTo(TitleChars, MaxTitleLen)}
        \cup {[type |-> "dict", d |-> [Albums |-> <<>>]],
              [type |-> "dict", d |-> EmptyDict],
              [type |-> "list", d |-> EmptyDict]}

InitName == Idle /\ arg \in NameArgs /\ ret = NotCalled

CallGetAlbumName ==
    /\ ret = NotCalled
    /\ ret' = get_album_name(arg)
    /\ UNCHANGED <<pipeline_vars, arg>>

SpecName == InitName /\ [][CallGetAlbumName]_vars

UrlImages ==
    {ImageOf("k", "f", keys) : keys \in SUBSET {"L", "M", ""}}
        \cup {[type |-> "dict",
               d |-> [BaseUrl |-> <<"h", "/">>, URLFilename |-> <<"f">>,
                      Sizes |-> SizesOf({"L"})]],
              [type |-> "dict",
               d |-> [BaseUrl |-> <<"h", "/">>, ImageKey |-> <<"k">>,
                      URLFilename |-> <<"f">>]],
              [type |-> "list", d |-> EmptyDict]}

Selectors ==
    {[kind |-> "none", val |-> <<>>]}
        \cup {[kind |-> "str", val |-> <<l>>] : l \in Labels}
        \cup {[kind |-> "list", val |-> v] : v \in SeqsUpTo(Labels, MaxSelLen)}
        \cup {[kind |-> "tuple", val |-> v] : v \in {<<>>, <<"L">>}}

InitUrl ==
    /\ Idle
    /\ arg \in {[image |-> i, sel |-> s] : i \in UrlImages, s \in Selectors}
    /\ ret = NotCalled

CallGetImageUrl ==
    /\ ret = NotCalled
    /\ \E order \in SizesOrders(arg.image) :
           ret' = get_image_url(arg.image, arg.sel, order)
    /\ UNCHANGED <<pipeline_vars, arg>>

SpecUrl == InitUrl /\ [][CallGetImageUrl]_vars

HtmlTokens == {"galleryConfig", "=", "{", "}", ";", " ", "m", "\n"}

HtmlArgs ==
    {[type |-> "str", text |-> t] : t \in SeqsUpTo(HtmlTokens, MaxHtmlLen)}
        \cup {[type |-> "unicode", text |-> <<>>]}

InitHtml == Idle /\ arg \in HtmlArgs /\ ret = NotCalled

CallGetGalleryConfig ==
    /\ ret = NotCalled
    /\ ret' = get_gallery_config_from_html(arg)
    /\ UNCHANGED <<pipeline_vars, arg>>

SpecHtml == InitHtml /\ [][CallGetGalleryConfig]_vars

-----------------------------------------------------------------------------
(* Properties of the pipeline (Spec).                                      *)

\* download_album has returned for the album whose calls log holds.
AlbumDone == log # <<>> /\ log[Len(log)].op = "album_done"

\* The positions of log whose call is one of ops.
Calls(ops) == {i \in DOMAIN log : log[i].op \in ops}

\* The step of the pipeline a call belongs to.
StageOf(op) ==
    CASE op = "urlopen_html" -> "FetchHTML"
      [] op = "get_gallery_config_from_html" -> "ExtractConfig"
      [] op \in {"request_album_data", "album_data_received"} -> "FetchAlbumMetadata"
      [] op \in {"request_image_data", "image_data_received"} -> "FetchImageList"
      [] op = "get_album_name" -> "ResolveAlbumName"
      [] op \in {"exists", "makedirs"} -> "EnsureOutputDir"
      [] op \in {"get_image_url", "urlretrieve"} -> "PerImage"
      [] op = "album_done" -> "Returned"

\* The place of a step in order, the steps once per album first, then the
\* steps of the loop over the images, then the return.
Rank(order, stage) ==
    IF stage = "PerImage" THEN Len(order) + 1
    ELSE IF stage = "Returned" THEN Len(order) + 2
    ELSE CHOOSE r \in 1..Len(order) : order[r] = stage

\* The calls of the album come step by step in the given order: no call of a
\* step comes before a call of an earlier step, and a step is only reached
\* once every step before it has made its call.
StepsFollow(order) ==
    /\ \A i, j \in DOMAIN log :
           i < j => Rank(order, StageOf(log[i].op)) <= Rank(order, StageOf(log[j].op))
    /\ \A j \in DOMAIN log : \A r \in 1..Len(order) :
           r < Rank(order, StageOf(log[j].op))
               => \E i \in 1..(j - 1) : StageOf(log[i].op) = order[r]

NameThenImageList ==
    <<"FetchHTML", "ExtractConfig", "FetchAlbumMetadata", "ResolveAlbumName",
      "EnsureOutputDir", "FetchImageList">>

ImageListThenName ==
    <<"FetchHTML", "ExtractConfig", "FetchAlbumMetadata", "FetchImageList",
      "ResolveAlbumName", "EnsureOutputDir">>

\* C1 as stated: the steps of an album occur in the order FetchHTML,
\* ExtractConfig, FetchAlbumMetadata, ResolveAlbumName, EnsureOutputDir,
\* FetchImageList, then the per-image steps: the album name is resolved and
\* the directory ensured before the image list is requested.
C1_NameAndDirBeforeImageList == StepsFollow(NameThenImageList)

\* C1 amended: the steps of an album occur in the order FetchHTML,
\* ExtractConfig, FetchAlbumMetadata, FetchImageList, ResolveAlbumName,
\* EnsureOutputDir, then the per-image steps: the image list is requested
\* before the album name is resolved and the directory ensured.
C1_ImageListBeforeNameAndDir == StepsFollow(ImageListThenName)

\* An album whose every step made a call, down to a download.
C1_Witness ==
    /\ AlbumDone
    /\ Calls({"urlretrieve"}) # {} /\ Calls({"makedirs"}) # {}
    /\ \E i \in Calls({"request_image_data"}) : \E j \in Calls({"get_album_name"}) :
           i < j

\* The values of PageSize in the query string of an API URL.
PageSizes(url) == {p[2] : p \in {q \in url.query : q[1] = "PageSize"}}

ApiCalls == Calls({"request_album_data", "request_image_data"})

\* C2: for an album processed without error, exactly two API requests follow
\* the HTML fetch; the first carries PageSize = 0, the second is issued after
\* the response to the first was received and carries PageSize equal to that
\* response's Pagination.TotalItems, whatever galleryRequestData held.
C2_TwoRequestsSizedByTotalItems ==
    AlbumDone =>
        /\ Cardinality(ApiCalls) = 2
        /\ \E i, j \in ApiCalls :
               /\ i < j
               /\ \A h \in Calls({"urlopen_html"}) : h < i
               /\ PageSizes(log[i].url) = {"0"}
               /\ \E r \in Calls({"album_data_received"}) :
                      /\ i < r /\ r < j
                      /\ PageSizes(log[j].url)
                           = {IntToStr(log[r].body.d.Pagination.TotalItems)}

\* An album of two items whose page had set PageSize, method and
\* returnModelList itself.
C2_Witness ==
    /\ AlbumDone
    /\ \E j \in Calls({"request_image_data"}) :
           /\ <<"Album", "xyz">> \in log[j].url.query
           /\ PageSizes(log[j].url) = {"2"}

\* C3: an error raised in any step of any album leaves main uncaught and ends
\* the run: once it is raised, no request, directory creation or file write
\* follows, for the rest of the album or for a later album.
C3_FirstErrorEndsRun ==
    [][/\ error' # "none" => pc' = "aborted"
       /\ error # "none" => /\ log' = log /\ fs_dirs' = fs_dirs
                            /\ fs_files' = fs_files /\ pc' = pc /\ ui' = ui]_vars

\* A download of the first album failed with a URL of the image, an image of
\* the album and an album of the run still to come.
C3_Witness ==
    /\ error # "none" /\ pc = "aborted"
    /\ ui < Len(urls) /\ pending # <<>> /\ ii <= Len(image_data)

\* C8 as stated: build_request_url works on a copy, so gallery_config stays
\* as it was parsed out of the HTML.
C8_ConfigStaysAsParsed == gallery_config = parsed_config

\* The directory of the album, as the call of os.path.exists names it.
AlbumDir == log[CHOOSE i \in Calls({"exists"}) : TRUE].path

\* The album's directory held no file when the album reached it.
DirWasEmpty == \A i \in Calls({"exists"}) : log[i].listing = {}

Downloads == Calls({"urlretrieve"})

\* C9 as stated: after an album processed without error into an empty
\* directory, the directory holds as many files as URLs were downloaded, each
\* named by its URL's final path segment.
C9_AsManyFilesAsUrls ==
    (AlbumDone /\ DirWasEmpty) =>
        /\ Listing(fs_files, AlbumDir) = {Basename(log[i].url) : i \in Downloads}
        /\ Cardinality(Listing(fs_files, AlbumDir)) = Cardinality(Downloads)

\* C9 amended: after an album processed without error into an empty
\* directory, the directory holds one file per distinct final path segment of
\* the URLs downloaded, holding what the last of these URLs gave; the number
\* of files is the number of URLs downloaded exactly when no two of them end
\* in the same path segment.
C9_OneFilePerFinalSegment ==
    (AlbumDone /\ DirWasEmpty) =>
        /\ Listing(fs_files, AlbumDir) = {Basename(log[i].url) : i \in Downloads}
        /\ \A i \in Downloads :
               (\A j \in Downloads : j > i => Basename(log[j].url) # Basename(log[i].url))
                   => fs_files[[dir |-> AlbumDir, name |-> Basename(log[i].url)]]
                        = log[i].url
        /\ (Cardinality(Listing(fs_files, AlbumDir)) = Cardinality(Downloads))
               <=> (\A i, j \in Downloads :
                        Basename(log[i].url) = Basename(log[j].url) => i = j)

\* Three URLs downloaded into an empty directory, two of them (of two
\* images) ending in the same path segment: two files.
C9_Witness ==
    /\ AlbumDone /\ DirWasEmpty
    /\ Cardinality(Downloads) = 3
    /\ Cardinality(Listing(fs_files, AlbumDir)) = 2

\* The call of get_image_url that a call at position i follows most closely.
LastResolve(i) ==
    CHOOSE j \in Calls({"get_image_url"}) :
        j < i /\ \A k \in Calls({"get_image_url"}) : k < i => k <= j

\* C10: download_album attempts one download for every URL get_image_url
\* resolved, a single string or a sequence, and no other, one at a time, and
\* has attempted all the downloads of an image before it turns to the image
\* listed after it.
C10_OneDownloadPerResolvedUrl ==
    /\ \A i \in Downloads :
           /\ \E j \in Calls({"get_image_url"}) : j < i
           /\ LET j == LastResolve(i) IN
              /\ i - j <= Len(log[j].ret.urls)
              /\ log[i].url = log[j].ret.urls[i - j]
    /\ \A i \in Calls({"get_image_url", "album_done"}) :
           (\E j \in Calls({"get_image_url"}) : j < i)
               => i - LastResolve(i) - 1 = Len(log[LastResolve(i)].ret.urls)
    /\ \A i \in Calls({"get_image_url"}) :
           log[i].image = Cardinality({k \in Calls({"get_image_url"}) : k <= i})
    /\ AlbumDone =>
           \A r \in Calls({"image_data_received"}) :
               Cardinality(Calls({"get_image_url"})) = log[r].count

\* An album of two images, one resolved to a sequence of two URLs and one to
\* a single string, all three downloaded.
C10_Witness ==
    /\ AlbumDone
    /\ \E i, j \in Calls({"get_image_url"}) :
           /\ i < j
           /\ log[i].ret.shape = "list" /\ Len(log[i].ret.urls) = 2
           /\ log[j].ret.shape = "str"
    /\ Cardinality(Downloads) = 3

-----------------------------------------------------------------------------
(* Properties of get_album_name (SpecName).                                *)

Reserved == {"\\", "/", "*", "?", ":", "\"", "<", ">"}

\* C4 as stated: get_album_name returns the title without any occurrence of
\* the eight characters \ / * ? : " < >, the other characters kept unchanged
\* and in their order.
C4_StripsTheEightCharacters ==
    (ret # NotCalled /\ ret.err = "none") =>
        LET title == arg.d.Albums[1].Title IN
        /\ Range(ret.name) \cap Reserved = {}
        /\ ret.name = Filter(title, Range(title) \ Reserved)

-----------------------------------------------------------------------------
(* Properties of get_image_url (SpecUrl).                                  *)

\* The call was made on an image record with the fields of the data model.
OnImageRecord ==
    /\ ret # NotCalled
    /\ arg.image.type = "dict"
    /\ {"BaseUrl", "ImageKey", "URLFilename", "Sizes"} \subseteq DOMAIN arg.image.d

SizeKeys == DOMAIN arg.image.d.Sizes

C6_SingleLabel ==
    (OnImageRecord /\ arg.sel.kind = "str" /\ Truthy(arg.sel)) =>
        LET label == arg.sel.val[1] IN
        /\ label \in SizeKeys =>
               /\ ret.err = "none" /\ ret.shape = "str"
               /\ ret.urls = <<FormatUrl(arg.image.d, label)>>
        /\ label \notin SizeKeys =>
               ret.err = "ValueError" /\ ret.urls = <<>>

\* A single label that is no key of the image's two sizes: ValueError.
C6_Witness ==
    /\ OnImageRecord
    /\ arg.sel.kind = "str" /\ arg.sel.val[1] = "X"
    /\ Cardinality(SizeKeys) = 2
    /\ ret.err = "ValueError"

-----------------------------------------------------------------------------
(* Properties of get_gallery_config_from_html (SpecHtml).                  *)

\* A line of the page holds a galleryConfig = {...}; assignment.
HasAssignment(text) ==
    \E i \in DOMAIN SplitLines(text) : Search(SplitLines(text)[i]).found

\* C7 as stated: on a string, get_gallery_config_from_html fails with
\* ValueError when no line holds a galleryConfig = {...}; assignment, a line
\* that only mentions galleryConfig included, and when the object's text is
\* not JSON; it fails with no other kind of error.
C7_FailsWithValueErrorOnly ==
    (ret # NotCalled /\ arg.type = "str") =>
        /\ ~HasAssignment(arg.text) => ret.err = "ValueError"
        /\ ret.err \in {"none", "ValueError"}

=============================================================================
